---- MODULE Spec2Model ----
(***************************************************************************)
(* Model of the Redzone recruiting tracker (src/redzone-app/src/app/      *)
(* page.tsx): the entity store kept in React state, its write-on-change   *)
(* persistence effects over localStorage, the derived values and the      *)
(* rule-based bot.                                                         *)
(*                                                                         *)
(* A JavaScript string is a sequence of one-character strings, so that    *)
(* trim, toLowerCase and includes are computed on the characters.  A      *)
(* JavaScript object is a function from its keys to its values; a key     *)
(* the object lacks is outside its DOMAIN (reading it gives undefined).   *)
(* A JSON text is a sequence of tokens (the text after lexing).           *)
(***************************************************************************)
EXTENDS Integers, Sequences, FiniteSets, TLC

VARIABLES phase, now, profile, schools, outreach, botMessages, reelPlan,
          brandName, botName, store, storageUp, effects, reader, alerts,
          lastOp

vars == <<phase, now, profile, schools, outreach, botMessages, reelPlan,
          brandName, botName, store, storageUp, effects, reader, alerts,
          lastOp>>

mem == <<profile, schools, outreach, botMessages, reelPlan, brandName, botName>>

----------------------------------------------------------------------------
(* Bounds of the model *)

MaxClock == 2
MaxSchools == 2
MaxOutreach == 2
MaxAchievements == 2
MaxMessages == 4
MaxAlerts == 1

(* the length of a calendar day, in clock units *)
MsPerDay == 2

----------------------------------------------------------------------------
(* JavaScript string primitives *)

Upper == <<"A", "B", "C", "D", "E", "F", "G", "H", "I", "J", "K", "L", "M",
           "N", "O", "P", "Q", "R", "S", "T", "U", "V", "W", "X", "Y", "Z">>

Lower == <<"a", "b", "c", "d", "e", "f", "g", "h", "i", "j", "k", "l", "m",
           "n", "o", "p", "q", "r", "s", "t", "u", "v", "w", "x", "y", "z">>

WhiteSpace == {" ", "\t", "\n"}

LowerChar(c) ==
  IF \E i \in 1..26 : Upper[i] = c
  THEN Lower[CHOOSE i \in 1..26 : Upper[i] = c]
  ELSE c

toLowerCase(s) == [i \in 1..Len(s) |-> LowerChar(s[i])]

toUpperCase(s) ==
  [i \in 1..Len(s) |->
     IF \E j \in 1..26 : Lower[j] = s[i]
     THEN Upper[CHOOSE j \in 1..26 : Lower[j] = s[i]]
     ELSE s[i]]

trim(s) ==
  LET keep == {i \in 1..Len(s) : s[i] \notin WhiteSpace}
  IN IF keep = {} THEN <<>>
     ELSE LET lo == CHOOSE i \in keep : \A j \in keep : i <= j
              hi == CHOOSE i \in keep : \A j \in keep : j <= i
          IN SubSeq(s, lo, hi)

trimStart(s) ==
  LET keep == {i \in 1..Len(s) : s[i] \notin WhiteSpace}
  IN IF keep = {} THEN <<>>
     ELSE SubSeq(s, CHOOSE i \in keep : \A j \in keep : i <= j, Len(s))

includes(s, sub) ==
  \E i \in 0..(Len(s) - Len(sub)) : SubSeq(s, i + 1, i + Len(sub)) = sub

startsWith(s, pre) == Len(pre) <= Len(s) /\ SubSeq(s, 1, Len(pre)) = pre

(* Boolean(v) for a string v: only the empty string is falsy *)
Truthy(s) == s /= <<>>

(* String(obj[k]), as parseFloat converts its argument: a key the object  *)
(* lacks reads as undefined                                                *)
ToStringField(obj, k) ==
  IF k \in DOMAIN obj THEN obj[k]
  ELSE <<"u", "n", "d", "e", "f", "i", "n", "e", "d">>

(* obj[k] for an object that may lack k: the value is truthy *)
TruthyField(obj, k) == k \in DOMAIN obj /\ Truthy(obj[k])

----------------------------------------------------------------------------
(* parseFloat and computeFitScore *)

Digits == <<"0", "1", "2", "3", "4", "5", "6", "7", "8", "9">>

IsDigit(c) == \E i \in 1..10 : Digits[i] = c

DigitVal(c) == (CHOOSE i \in 1..10 : Digits[i] = c) - 1

(* the length of the longest prefix of s made of digits *)
DigitRun(s) ==
  LET stop == {i \in 1..Len(s) : ~IsDigit(s[i])}
  IN IF stop = {} THEN Len(s)
     ELSE (CHOOSE i \in stop : \A j \in stop : i <= j) - 1

RECURSIVE DigitsVal(_)
DigitsVal(s) ==
  IF s = <<>> THEN 0
  ELSE 10 * DigitsVal(SubSeq(s, 1, Len(s) - 1)) + DigitVal(s[Len(s)])

RECURSIVE Pow10(_)
Pow10(n) == IF n = 0 THEN 1 ELSE 10 * Pow10(n - 1)

Drop(s, n) == SubSeq(s, n + 1, Len(s))

NaN == [kind |-> "nan", num |-> 0, den |-> 1]

Infinity(neg) == [kind |-> "inf", num |-> IF neg THEN -1 ELSE 1, den |-> 1]

Finite(n, d) == [kind |-> "fin", num |-> n, den |-> d]

strInfinity == <<"I", "n", "f", "i", "n", "i", "t", "y">>

(* the value of mantissa digits intD.fracD times 10^(+-ex) *)
Scaled(neg, intD, fracD, eneg, ex) ==
  Finite((IF neg THEN -1 ELSE 1) * DigitsVal(intD \o fracD) * (IF eneg THEN 1 ELSE Pow10(ex)),
         Pow10(Len(fracD)) * (IF eneg THEN Pow10(ex) ELSE 1))

(* an exponent part counts only when a digit follows the e and its sign *)
ParseExponentDigits(neg, intD, fracD, eneg, t4) ==
  IF DigitRun(t4) = 0 THEN Scaled(neg, intD, fracD, FALSE, 0)
  ELSE Scaled(neg, intD, fracD, eneg, DigitsVal(SubSeq(t4, 1, DigitRun(t4))))

ParseExponent(neg, intD, fracD, t3) ==
  IF Len(intD) + Len(fracD) = 0 THEN NaN
  ELSE IF t3 = <<>> \/ t3[1] \notin {"e", "E"} THEN Scaled(neg, intD, fracD, FALSE, 0)
  ELSE IF Len(t3) >= 2 /\ t3[2] \in {"+", "-"}
       THEN ParseExponentDigits(neg, intD, fracD, t3[2] = "-", Drop(t3, 2))
       ELSE ParseExponentDigits(neg, intD, fracD, FALSE, Drop(t3, 1))

ParseFraction(neg, intD, t2) ==
  IF t2 /= <<>> /\ t2[1] = "."
  THEN ParseExponent(neg, intD, SubSeq(Tail(t2), 1, DigitRun(Tail(t2))),
                     Drop(Tail(t2), DigitRun(Tail(t2))))
  ELSE ParseExponent(neg, intD, <<>>, t2)

ParseMantissa(neg, t1) ==
  IF startsWith(t1, strInfinity) THEN Infinity(neg)
  ELSE ParseFraction(neg, SubSeq(t1, 1, DigitRun(t1)), Drop(t1, DigitRun(t1)))

ParseSign(t0) ==
  IF t0 /= <<>> /\ t0[1] \in {"+", "-"}
  THEN ParseMantissa(t0[1] = "-", Tail(t0))
  ELSE ParseMantissa(FALSE, t0)

(* parseFloat: leading white space is skipped, then the longest prefix     *)
(* that is a decimal literal (sign, digits, fraction, exponent) is read;   *)
(* the value is the exact rational num/den.                                *)
parseFloat(str) == ParseSign(trimStart(str))

isNaN(x) == x.kind = "nan"

Min(a, b) == IF a <= b THEN a ELSE b

Max(a, b) == IF a >= b THEN a ELSE b

(* Math.round(n / d) for d > 0: the nearest integer, halves towards +oo *)
MathRound(n, d) == (2 * n + d) \div (2 * d)

computeFitScoreUnclamped(gpa) ==
  LET gpaNum == parseFloat(gpa)
  IN IF isNaN(gpaNum) THEN 50
     ELSE IF gpaNum.kind = "inf"
          THEN gpaNum.num * 1000000
          ELSE MathRound(gpaNum.num * 100, gpaNum.den * 4)

computeFitScore(gpa) ==
  LET gpaNum == parseFloat(gpa)
  IN IF isNaN(gpaNum) THEN 50
     ELSE IF gpaNum.kind = "inf"
          THEN Min(100, Max(0, gpaNum.num * 1000000))
          ELSE Min(100, Max(0, MathRound(gpaNum.num * 100, gpaNum.den * 4)))

----------------------------------------------------------------------------
(* JSON.stringify and JSON.parse over token sequences *)

LBrace == [t |-> "{"]

RBrace == [t |-> "}"]

LBracket == [t |-> "["]

RBracket == [t |-> "]"]

Comma == [t |-> ","]

NullTok == [t |-> "null"]

BadTok == [t |-> "bad"]

StrTok(s) == [t |-> "str", s |-> s]

NumTok(n) == [t |-> "num", n |-> n]

(* a member name together with its colon *)
KeyTok(k) == [t |-> "key", k |-> k]

(* the value null (reading a property of it throws a TypeError) *)
JSNull == [jsnull |-> TRUE]

EmptyObject == [k \in {} |-> <<>>]

ParseOk(v, rest) == [ok |-> TRUE, v |-> v, rest |-> rest]

ParseFail == [ok |-> FALSE, v |-> <<>>, rest |-> <<>>]

NextIs(toks, t) == toks /= <<>> /\ Head(toks).t = t

RECURSIVE ParseValue(_)
RECURSIVE ParseElements(_, _)
RECURSIVE ParseMembers(_, _)

ParseValue(toks) ==
  IF toks = <<>> THEN ParseFail
  ELSE LET h == Head(toks)
           r == Tail(toks)
       IN CASE h.t = "str"  -> ParseOk(h.s, r)
            [] h.t = "num"  -> ParseOk(h.n, r)
            [] h.t = "null" -> ParseOk(JSNull, r)
            [] h.t = "["    -> IF NextIs(r, "]") THEN ParseOk(<<>>, Tail(r))
                               ELSE ParseElements(r, <<>>)
            [] h.t = "{"    -> IF NextIs(r, "}") THEN ParseOk(EmptyObject, Tail(r))
                               ELSE ParseMembers(r, EmptyObject)
            [] OTHER        -> ParseFail

ParseElements(toks, acc) ==
  LET e == ParseValue(toks)
  IN IF ~e.ok THEN ParseFail
     ELSE IF NextIs(e.rest, ",") THEN ParseElements(Tail(e.rest), Append(acc, e.v))
     ELSE IF NextIs(e.rest, "]") THEN ParseOk(Append(acc, e.v), Tail(e.rest))
     ELSE ParseFail

ParseMembers(toks, acc) ==
  IF ~NextIs(toks, "key") THEN ParseFail
  ELSE LET k == Head(toks).k
           m == ParseValue(Tail(toks))
           obj == (k :> m.v) @@ acc
       IN IF ~m.ok THEN ParseFail
          ELSE IF NextIs(m.rest, ",") THEN ParseMembers(Tail(m.rest), obj)
          ELSE IF NextIs(m.rest, "}") THEN ParseOk(obj, Tail(m.rest))
          ELSE ParseFail

(* JSON.parse: ok is FALSE where JSON.parse throws a SyntaxError *)
JSONparse(toks) ==
  LET r == ParseValue(toks)
  IN IF r.ok /\ Len(r.rest) = 0 THEN [ok |-> TRUE, v |-> r.v]
     ELSE [ok |-> FALSE, v |-> <<>>]

RECURSIVE JoinTokens(_)
JoinTokens(parts) ==
  IF parts = <<>> THEN <<>>
  ELSE IF Len(parts) = 1 THEN parts[1]
  ELSE parts[1] \o <<Comma>> \o JoinTokens(Tail(parts))

StringifyArray(parts) == <<LBracket>> \o JoinTokens(parts) \o <<RBracket>>

StringifyObject(parts) == <<LBrace>> \o JoinTokens(parts) \o <<RBrace>>

StringifyAchievement(a) ==
  StringifyObject(<< <<KeyTok("id"), NumTok(a.id)>>,
                     <<KeyTok("text"), StrTok(a.text)>> >>)

ScalarKeys == <<"name", "email", "phone", "position", "height", "weight",
                "gpa", "testScores">>

ProfileKeys == Append(ScalarKeys, "achievements")

(* JSON.stringify(profile): the members the object has, in key order *)
StringifyProfile(p) ==
  LET member(k) ==
        IF k = "achievements"
        THEN <<KeyTok(k)>> \o
             StringifyArray([i \in 1..Len(p[k]) |-> StringifyAchievement(p[k][i])])
        ELSE <<KeyTok(k), StrTok(p[k])>>
      present == SelectSeq(ProfileKeys, LAMBDA k : k \in DOMAIN p)
  IN StringifyObject([i \in 1..Len(present) |-> member(present[i])])

StringifySchool(s) ==
  StringifyObject(<< <<KeyTok("id"), NumTok(s.id)>>,
                     <<KeyTok("name"), StrTok(s.name)>>,
                     <<KeyTok("division"), StrTok(s.division)>>,
                     <<KeyTok("contact"), StrTok(s.contact)>>,
                     <<KeyTok("fitScore"), NumTok(s.fitScore)>> >>)

StringifySchools(ss) ==
  StringifyArray([i \in 1..Len(ss) |-> StringifySchool(ss[i])])

StringifyOutreachEntry(o) ==
  StringifyObject(<< <<KeyTok("id"), NumTok(o.id)>>,
                     <<KeyTok("schoolId"), NumTok(o.schoolId)>>,
                     <<KeyTok("date"), StrTok(o.date)>>,
                     <<KeyTok("message"), StrTok(o.message)>> >>)

StringifyOutreach(os) ==
  StringifyArray([i \in 1..Len(os) |-> StringifyOutreachEntry(os[i])])

StringifyBotMessage(m) ==
  StringifyObject(<< <<KeyTok("id"), NumTok(m.id)>>,
                     <<KeyTok("from"), StrTok(m.from)>>,
                     <<KeyTok("text"), StrTok(m.text)>> >>)

StringifyBotMessages(ms) ==
  StringifyArray([i \in 1..Len(ms) |-> StringifyBotMessage(ms[i])])

----------------------------------------------------------------------------
(* The entity store: defaults, persistence keys, load and flush *)

emptyProfile ==
  [name |-> <<>>, email |-> <<>>, phone |-> <<>>, position |-> <<>>,
   height |-> <<>>, weight |-> <<>>, gpa |-> <<>>, testScores |-> <<>>,
   achievements |-> <<>>]

defaultBrandName ==
  <<"R", "e", "d", "z", "o", "n", "e", " ",
    "R", "e", "c", "r", "u", "i", "t", "i", "n", "g">>

defaultBotName ==
  <<"R", "e", "c", "r", "u", "i", "t", "i", "n", "g", " ", "B", "o", "t">>

(* the persistence keys, in the order their effects are declared *)
EffectKeys == <<"rz_profile", "rz_schools", "rz_outreach", "rz_bot",
                "rz_reelPlan", "rz_brandName", "rz_botName">>

Keys == {EffectKeys[i] : i \in 1..Len(EffectKeys)}

Absent == [has |-> FALSE, v |-> <<>>]

Stored(v) == [has |-> TRUE, v |-> v]

(* localStorage.getItem(key) is truthy: present and not the empty string *)
StoredTruthy(st, key) == st[key].has /\ Len(st[key].v) > 0

(* the useState initialisers that parse JSON inside try/catch *)
LoadJSON(st, key, dflt) ==
  IF StoredTruthy(st, key)
  THEN LET r == JSONparse(st[key].v) IN IF r.ok THEN r.v ELSE dflt
  ELSE dflt

(* localStorage.getItem(key) || dflt *)
LoadText(st, key, dflt) == IF StoredTruthy(st, key) THEN st[key].v ELSE dflt

(* the first render reads profile.achievements.length and maps the lists *)
RenderThrows(p) == "achievements" \notin DOMAIN p

(* the value each persistence effect hands to localStorage.setItem *)
Serialize(key) ==
  CASE key = "rz_profile"   -> StringifyProfile(profile)
    [] key = "rz_schools"   -> StringifySchools(schools)
    [] key = "rz_outreach"  -> StringifyOutreach(outreach)
    [] key = "rz_bot"       -> StringifyBotMessages(botMessages)
    [] key = "rz_reelPlan"  -> reelPlan
    [] key = "rz_brandName" -> brandName
    [] key = "rz_botName"   -> botName

NoOp == [name |-> "none", id |-> 0, text |-> <<>>]

Op(name, id, text) == [name |-> name, id |-> id, text |-> text]

Init ==
  /\ phase = "boot"
  /\ now = 1
  /\ profile = emptyProfile
  /\ schools = <<>>
  /\ outreach = <<>>
  /\ botMessages = <<>>
  /\ reelPlan = <<>>
  /\ brandName = defaultBrandName
  /\ botName = defaultBotName
  /\ store = [k \in Keys |-> Absent]
  /\ storageUp = TRUE
  /\ effects = <<>>
  /\ reader = <<>>
  /\ alerts = 0
  /\ lastOp = NoOp

(* the page loads with the store possibly unavailable *)
InitPersist ==
  /\ phase = "boot"
  /\ now = 1
  /\ profile = emptyProfile
  /\ schools = <<>>
  /\ outreach = <<>>
  /\ botMessages = <<>>
  /\ reelPlan = <<>>
  /\ brandName = defaultBrandName
  /\ botName = defaultBotName
  /\ store = [k \in Keys |-> Absent]
  /\ storageUp \in BOOLEAN
  /\ effects = <<>>
  /\ reader = <<>>
  /\ alerts = 0
  /\ lastOp = NoOp

(* the operations are event handlers: one runs when the page is mounted   *)
(* and the effects of the previous commit have all run                     *)
Idle == phase = "running" /\ effects = <<>>

(* Date.now() is read without advancing; time passes between events *)
Tick ==
  /\ now < MaxClock
  /\ now' = now + 1
  /\ UNCHANGED <<phase, mem, store, storageUp, effects, reader, alerts, lastOp>>

(* first render of Page: the useState initialisers, lines 66-134.  With   *)
(* the store unavailable getItem throws: the four JSON initialisers catch  *)
(* it, the reelPlan initialiser does not, and the render fails.            *)
Mount ==
  /\ phase = "boot"
  /\ IF ~storageUp
     THEN /\ phase' = "crashed"
          /\ effects' = <<>>
          /\ UNCHANGED mem
     ELSE LET p == LoadJSON(store, "rz_profile", emptyProfile)
          IN /\ profile' = p
             /\ schools' = LoadJSON(store, "rz_schools", <<>>)
             /\ outreach' = LoadJSON(store, "rz_outreach", <<>>)
             /\ botMessages' = LoadJSON(store, "rz_bot", <<>>)
             /\ reelPlan' = LoadText(store, "rz_reelPlan", <<>>)
             /\ brandName' = LoadText(store, "rz_brandName", defaultBrandName)
             /\ botName' = LoadText(store, "rz_botName", defaultBotName)
             /\ phase' = IF RenderThrows(p) THEN "crashed" ELSE "running"
             /\ effects' = IF RenderThrows(p) THEN <<>> ELSE EffectKeys
  /\ lastOp' = Op("mount", 0, <<>>)
  /\ UNCHANGED <<now, store, storageUp, reader, alerts>>

(* one persistence effect, lines 137-157: setItem is not guarded, so a    *)
(* failing write is an uncaught error of the commit and unmounts the page  *)
RunEffect ==
  /\ phase = "running"
  /\ effects /= <<>>
  /\ IF storageUp
     THEN /\ store' = [store EXCEPT ![Head(effects)] = Stored(Serialize(Head(effects)))]
          /\ effects' = Tail(effects)
          /\ phase' = phase
     ELSE /\ store' = store
          /\ effects' = <<>>
          /\ phase' = "crashed"
  /\ UNCHANGED <<now, mem, storageUp, reader, alerts, lastOp>>

(* the effects whose dependency changed identity, in declaration order *)
Changed(ks) == SelectSeq(EffectKeys, LAMBDA k : k \in ks)

(* the store becomes unavailable or available again *)
StorageToggle ==
  /\ storageUp' = ~storageUp
  /\ UNCHANGED <<phase, now, mem, store, effects, reader, alerts, lastOp>>

(* the user reloads the page: the in-memory state is rebuilt from the store *)
Reload ==
  /\ phase \in {"running", "crashed"}
  /\ effects = <<>>
  /\ phase' = "boot"
  /\ profile' = emptyProfile
  /\ schools' = <<>>
  /\ outreach' = <<>>
  /\ botMessages' = <<>>
  /\ reelPlan' = <<>>
  /\ brandName' = defaultBrandName
  /\ botName' = defaultBotName
  /\ reader' = <<>>
  /\ lastOp' = Op("reload", 0, <<>>)
  /\ UNCHANGED <<now, store, storageUp, effects, alerts>>

----------------------------------------------------------------------------
(* The mutation operations *)

(* { ...prev, [field]: value } *)
Spread(prev, field, value) ==
  [k \in DOMAIN prev \cup {field} |-> IF k = field THEN value ELSE prev[k]]

handleProfileChangeRescoring(field, value) ==
  /\ Idle
  /\ profile' = Spread(profile, field, value)
  /\ schools' = [i \in 1..Len(schools) |->
                  [schools[i] EXCEPT !.fitScore =
                     computeFitScore(ToStringField(profile', "gpa"))]]
  /\ effects' = Changed({"rz_profile", "rz_schools"})
  /\ lastOp' = Op("handleProfileChange", 0, value)
  /\ UNCHANGED <<phase, now, outreach, botMessages, reelPlan,
                 brandName, botName, store, storageUp, reader, alerts>>

handleProfileChange(field, value) ==
  /\ Idle
  /\ profile' = Spread(profile, field, value)
  /\ effects' = Changed({"rz_profile"})
  /\ lastOp' = Op("handleProfileChange", 0, value)
  /\ UNCHANGED <<phase, now, schools, outreach, botMessages, reelPlan,
                 brandName, botName, store, storageUp, reader, alerts>>

addAchievement(text) ==
  /\ Idle
  /\ Len(profile.achievements) < MaxAchievements
  /\ IF trim(text) = <<>>
     THEN UNCHANGED <<profile, effects>>
     ELSE LET newAch == [id |-> now, text |-> text]
          IN /\ profile' = Spread(profile, "achievements",
                                  Append(profile.achievements, newAch))
             /\ effects' = Changed({"rz_profile"})
  /\ lastOp' = Op("addAchievement", 0, text)
  /\ UNCHANGED <<phase, now, schools, outreach, botMessages, reelPlan,
                 brandName, botName, store, storageUp, reader, alerts>>

removeAchievement(id) ==
  /\ Idle
  /\ profile' = Spread(profile, "achievements",
                       SelectSeq(profile.achievements, LAMBDA a : a.id /= id))
  /\ effects' = Changed({"rz_profile"})
  /\ lastOp' = Op("removeAchievement", id, <<>>)
  /\ UNCHANGED <<phase, now, schools, outreach, botMessages, reelPlan,
                 brandName, botName, store, storageUp, reader, alerts>>

(* importProfile: with a file chosen, a FileReader starts reading it *)
importProfile(files) ==
  /\ Idle
  /\ reader = <<>>
  /\ alerts < MaxAlerts
  /\ reader' = IF files = <<>> THEN reader ELSE <<files[1]>>
  /\ lastOp' = Op("importProfile", Len(files), <<>>)
  /\ UNCHANGED <<phase, now, mem, store, storageUp, effects, alerts>>

readerOnloadMerging ==
  /\ Idle
  /\ reader /= <<>>
  /\ LET obj == JSONparse(reader[1])
         merged == IF obj.ok
                   THEN [k \in DOMAIN profile \cup DOMAIN obj.v |->
                           IF k \in DOMAIN obj.v THEN obj.v[k] ELSE profile[k]]
                   ELSE profile
     IN IF obj.ok
        THEN /\ profile' = merged
             /\ phase' = IF RenderThrows(merged) THEN "crashed" ELSE phase
             /\ effects' = IF RenderThrows(merged) THEN <<>> ELSE Changed({"rz_profile"})
             /\ alerts' = alerts
             /\ lastOp' = Op("onload", 1, <<>>)
        ELSE /\ alerts' = alerts + 1
             /\ lastOp' = Op("onload", 0, <<>>)
             /\ UNCHANGED <<profile, phase, effects>>
  /\ reader' = <<>>
  /\ UNCHANGED <<now, schools, outreach, botMessages, reelPlan, brandName,
                 botName, store, storageUp>>

(* reader.onload: parse the text; setProfile on success, alert on failure *)
readerOnload ==
  /\ Idle
  /\ reader /= <<>>
  /\ LET obj == JSONparse(reader[1])
     IN IF obj.ok
        THEN /\ profile' = obj.v
             /\ phase' = IF RenderThrows(obj.v) THEN "crashed" ELSE phase
             /\ effects' = IF RenderThrows(obj.v) THEN <<>> ELSE Changed({"rz_profile"})
             /\ alerts' = alerts
             /\ lastOp' = Op("onload", 1, <<>>)
        ELSE /\ alerts' = alerts + 1
             /\ lastOp' = Op("onload", 0, <<>>)
             /\ UNCHANGED <<profile, phase, effects>>
  /\ reader' = <<>>
  /\ UNCHANGED <<now, schools, outreach, botMessages, reelPlan, brandName,
                 botName, store, storageUp>>

addSchool(name, division, contact) ==
  /\ Idle
  /\ Len(schools) < MaxSchools
  /\ IF trim(name) = <<>>
     THEN UNCHANGED <<schools, effects>>
     ELSE LET newSchool == [id |-> now, name |-> name, division |-> division,
                            contact |-> contact,
                            fitScore |-> computeFitScore(ToStringField(profile, "gpa"))]
          IN /\ schools' = Append(schools, newSchool)
             /\ effects' = Changed({"rz_schools"})
  /\ lastOp' = Op("addSchool", 0, name)
  /\ UNCHANGED <<phase, now, profile, outreach, botMessages, reelPlan,
                 brandName, botName, store, storageUp, reader, alerts>>

removeSchoolKeepsOutreach(id) ==
  /\ Idle
  /\ schools' = SelectSeq(schools, LAMBDA s : s.id /= id)
  /\ outreach' = outreach
  /\ effects' = Changed({"rz_schools", "rz_outreach"})
  /\ lastOp' = Op("removeSchool", id, <<>>)
  /\ UNCHANGED <<phase, now, profile, botMessages, reelPlan, brandName,
                 botName, store, storageUp, reader, alerts>>

(* both updaters are queued in one event and committed in one render *)
removeSchool(id) ==
  /\ Idle
  /\ schools' = SelectSeq(schools, LAMBDA s : s.id /= id)
  /\ outreach' = SelectSeq(outreach, LAMBDA o : o.schoolId /= id)
  /\ effects' = Changed({"rz_schools", "rz_outreach"})
  /\ lastOp' = Op("removeSchool", id, <<>>)
  /\ UNCHANGED <<phase, now, profile, botMessages, reelPlan, brandName,
                 botName, store, storageUp, reader, alerts>>

findSchoolFirst(schoolId) ==
  IF schools = <<>> THEN <<>> ELSE <<schools[1]>>

(* schools.find(s => s.id === schoolId): the first match, or none *)
findSchool(schoolId) ==
  LET hits == {i \in 1..Len(schools) : schools[i].id = schoolId}
  IN IF hits = {} THEN <<>>
     ELSE <<schools[CHOOSE i \in hits : \A j \in hits : i <= j]>>

IntToStr(n) == IF n < 10 THEN <<Digits[n + 1]>>
               ELSE <<Digits[(n \div 10) + 1], Digits[(n % 10) + 1]>>

(* new Date().toISOString().split('T')[0]: the calendar day of the clock *)
TodayString == IntToStr(now \div MsPerDay)

logOutreachUnchecked(schoolId, message) ==
  /\ Idle
  /\ Len(outreach) < MaxOutreach
  /\ IF trim(message) = <<>>
     THEN UNCHANGED <<outreach, effects>>
     ELSE LET newEntry == [id |-> now, schoolId |-> schoolId,
                           date |-> TodayString, message |-> message]
          IN /\ outreach' = Append(outreach, newEntry)
             /\ effects' = Changed({"rz_outreach"})
  /\ lastOp' = Op("logOutreach", schoolId, message)
  /\ UNCHANGED <<phase, now, profile, schools, botMessages, reelPlan,
                 brandName, botName, store, storageUp, reader, alerts>>

logOutreach(schoolId, message) ==
  /\ Idle
  /\ Len(outreach) < MaxOutreach
  /\ LET school == findSchool(schoolId)
     IN IF school = <<>> \/ trim(message) = <<>>
        THEN UNCHANGED <<outreach, effects>>
        ELSE LET newEntry == [id |-> now, schoolId |-> school[1].id,
                              date |-> TodayString, message |-> message]
             IN /\ outreach' = Append(outreach, newEntry)
                /\ effects' = Changed({"rz_outreach"})
  /\ lastOp' = Op("logOutreach", schoolId, message)
  /\ UNCHANGED <<phase, now, profile, schools, botMessages, reelPlan,
                 brandName, botName, store, storageUp, reader, alerts>>

setReelPlan(value) ==
  /\ Idle
  /\ reelPlan' = value
  /\ effects' = IF value = reelPlan THEN <<>> ELSE Changed({"rz_reelPlan"})
  /\ lastOp' = Op("setReelPlan", 0, value)
  /\ UNCHANGED <<phase, now, profile, schools, outreach, botMessages,
                 brandName, botName, store, storageUp, reader, alerts>>

setBrandName(value) ==
  /\ Idle
  /\ brandName' = value
  /\ effects' = IF value = brandName THEN <<>> ELSE Changed({"rz_brandName"})
  /\ lastOp' = Op("setBrandName", 0, value)
  /\ UNCHANGED <<phase, now, profile, schools, outreach, botMessages,
                 reelPlan, botName, store, storageUp, reader, alerts>>

setBotName(value) ==
  /\ Idle
  /\ botName' = value
  /\ effects' = IF value = botName THEN <<>> ELSE Changed({"rz_botName"})
  /\ lastOp' = Op("setBotName", 0, value)
  /\ UNCHANGED <<phase, now, profile, schools, outreach, botMessages,
                 reelPlan, brandName, store, storageUp, reader, alerts>>

----------------------------------------------------------------------------
(* Derived value: profile completion, lines 237-239 *)

completedFields(p) ==
  Cardinality({i \in 1..Len(ScalarKeys) : TruthyField(p, ScalarKeys[i])})

profileCompletion(p) ==
  MathRound((completedFields(p) + Len(p.achievements)) * 100, 8 + 1)

----------------------------------------------------------------------------
(* The bot, lines 241-264 *)

fromUser == <<"u", "s", "e", "r">>

fromBot == <<"b", "o", "t">>

kwHello == <<"h", "e", "l", "l", "o">>
kwHi == <<"h", "i">>
kwProfile == <<"p", "r", "o", "f", "i", "l", "e">>
kwSchool == <<"s", "c", "h", "o", "o", "l">>
kwList == <<"l", "i", "s", "t">>
kwOutreach == <<"o", "u", "t", "r", "e", "a", "c", "h">>
kwHighlight == <<"h", "i", "g", "h", "l", "i", "g", "h", "t">>
kwReel == <<"r", "e", "e", "l">>

(* the reply texts: the fixed parts are kept as single chunks *)
replyGreeting(bot) ==
  <<"Hello! I'm ">> \o bot \o <<". How can I assist with your recruiting journey today?">>

replyProfile ==
  <<"Make sure your profile includes your position, height, weight, GPA, and test scores. College coaches look for complete information!">>

replySchool ==
  <<"When building your target school list, consider a mix of reach, match, and safety schools across divisions.">>

replyOutreach ==
  <<"Consistent outreach is key: send introductory emails, follow up every couple weeks, and personalize each message for the coach.">>

replyReel ==
  <<"Your highlight reel should showcase 20-25 of your best plays in the first 90 seconds. Use hudl or YouTube for hosting.">>

replyFallback ==
  <<"I'm sorry, I don't have an answer for that just yet. Try asking about your profile, school list, outreach, or highlight reel.">>

respondProfileFirst(bot, userText) ==
  LET lower == toLowerCase(userText)
  IN IF includes(lower, kwProfile) THEN replyProfile
     ELSE IF includes(lower, kwHello) \/ includes(lower, kwHi) THEN replyGreeting(bot)
     ELSE IF includes(lower, kwSchool) \/ includes(lower, kwList) THEN replySchool
     ELSE IF includes(lower, kwOutreach) THEN replyOutreach
     ELSE IF includes(lower, kwHighlight) \/ includes(lower, kwReel) THEN replyReel
     ELSE replyFallback

(* the if/else chain of sendToBot *)
respond(bot, userText) ==
  LET lower == toLowerCase(userText)
  IN IF includes(lower, kwHello) \/ includes(lower, kwHi) THEN replyGreeting(bot)
     ELSE IF includes(lower, kwProfile) THEN replyProfile
     ELSE IF includes(lower, kwSchool) \/ includes(lower, kwList) THEN replySchool
     ELSE IF includes(lower, kwOutreach) THEN replyOutreach
     ELSE IF includes(lower, kwHighlight) \/ includes(lower, kwReel) THEN replyReel
     ELSE replyFallback

sendToBotSameId(userText) ==
  /\ Idle
  /\ Len(botMessages) + 2 <= MaxMessages
  /\ IF trim(userText) = <<>>
     THEN UNCHANGED <<botMessages, effects, now>>
     ELSE \E d \in {0, 1} :
            /\ now + d <= MaxClock
            /\ LET userMsg == [id |-> now, from |-> fromUser, text |-> userText]
                   reply   == respond(botName, userText)
                   botMsg  == [id |-> now + d, from |-> fromBot, text |-> reply]
               IN botMessages' = Append(Append(botMessages, userMsg), botMsg)
            /\ now' = now + d
            /\ effects' = Changed({"rz_bot"})
  /\ lastOp' = Op("sendToBot", 0, userText)
  /\ UNCHANGED <<phase, profile, schools, outreach, reelPlan, brandName,
                 botName, store, storageUp, reader, alerts>>

(* Date.now() is read twice, at line 244 and at line 262: the second read *)
(* is the same millisecond or a later one                                  *)
sendToBot(userText) ==
  /\ Idle
  /\ Len(botMessages) + 2 <= MaxMessages
  /\ IF trim(userText) = <<>>
     THEN UNCHANGED <<botMessages, effects, now>>
     ELSE \E d \in {0, 1} :
            /\ now + d <= MaxClock
            /\ LET userMsg == [id |-> now, from |-> fromUser, text |-> userText]
                   reply   == respond(botName, userText)
                   botMsg  == [id |-> now + d + 1, from |-> fromBot, text |-> reply]
               IN botMessages' = Append(Append(botMessages, userMsg), botMsg)
            /\ now' = now + d
            /\ effects' = Changed({"rz_bot"})
  /\ lastOp' = Op("sendToBot", 0, userText)
  /\ UNCHANGED <<phase, profile, schools, outreach, reelPlan, brandName,
                 botName, store, storageUp, reader, alerts>>

----------------------------------------------------------------------------
(* The inputs the user supplies *)

sBlank == <<" ", " ">>

txtA == <<"A">>

txtB == <<"B">>

gpa35 == <<"3", ".", "5">>

gpa40 == <<"4", ".", "0">>

gpaBad == <<"a", "b", "c">>

gpa0 == <<"0">>

gpa50 == <<"5", ".", "0">>

gpaNeg == <<"-", "1">>

gpaNegSmall == <<"-", "0", ".", "0", "2">>

gpaSmall == <<"0", ".", "0", "2">>

gpa2x == <<"2", ".", "0", "x">>

gpaPadded == <<" ", "3">>

gpaExp == <<"1", "e", "1">>

gpaDot == <<".">>

gpaInfinity == <<"I", "n", "f", "i", "n", "i", "t", "y">>

gpaNegInfinity == <<"-">> \o gpaInfinity

(* the GPA texts of the fit-score check *)
GpaInputs == {<<>>, gpa0, gpa35, gpa40, gpa50, gpaNeg, gpaNegSmall, gpaSmall,
              gpa2x, gpaPadded, gpaExp, gpaDot, gpaBad, gpaInfinity,
              gpaNegInfinity}

divisionDI == <<"NCAA DI">>

Names == {txtA, sBlank}

Texts == {txtA, <<>>}

Messages == {txtB, sBlank}

GpaValues == {<<>>, gpa35, gpa40, gpaBad}

FieldValues == {<<>>, txtA}

Ids == 1..MaxClock

fullProfile ==
  [name |-> txtA, email |-> txtA, phone |-> txtA, position |-> txtA,
   height |-> txtA, weight |-> txtA, gpa |-> gpa40, testScores |-> txtA,
   achievements |-> <<[id |-> 1, text |-> txtB]>>]

payloadFull == StringifyProfile(fullProfile)

payloadPartial ==
  <<LBrace, KeyTok("name"), StrTok(txtB), Comma,
    KeyTok("achievements"), LBracket, RBracket, RBrace>>

payloadTruncated == SubSeq(payloadFull, 1, Len(payloadFull) - 1)

payloadTrailingComma ==
  <<LBrace, KeyTok("name"), StrTok(txtB), Comma, RBrace>>

payloadGarbage == <<BadTok>>

payloadNull == <<NullTok>>

payloadEmptyObject == <<LBrace, RBrace>>

Payloads == {payloadFull, payloadPartial, payloadTruncated,
             payloadTrailingComma, payloadGarbage, <<>>,
             payloadNull, payloadEmptyObject}

inHelloThere == <<"H", "e", "l", "l", "o", " ", "t", "h", "e", "r", "e">>
inXyz == <<"x", "y", "z">>
inSchoolList == <<"t", "e", "l", "l", " ", "m", "e", " ", "a", "b", "o", "u", "t", " ", "m", "y", " ", "S", "C", "H", "O", "O", "L", " ", "l", "i", "s", "t">>
inHI == <<"H", "I">>
inProfile == <<"m", "y", " ", "P", "r", "o", "f", "i", "l", "e">>
inList == <<"L", "I", "S", "T">>
inOutreach == <<"O", "u", "t", "r", "e", "a", "c", "h">>
inHighlight == <<"h", "i", "g", "h", "l", "i", "g", "h", "t">>
inReel == <<"r", "e", "e", "l">>
inReelUp == <<"R", "E", "E", "L">>
inHelloProfile == <<"h", "e", "l", "l", "o", " ", "p", "r", "o", "f", "i", "l", "e">>
inProfileSchool == <<"p", "r", "o", "f", "i", "l", "e", " ", "s", "c", "h", "o", "o", "l">>
inOutreachReel == <<"o", "u", "t", "r", "e", "a", "c", "h", " ", "r", "e", "e", "l">>
inThis == <<"t", "h", "i", "s", " ", "o", "u", "t", "r", "e", "a", "c", "h">>
inListOutreach == <<"o", "u", "t", "r", "e", "a", "c", "h", " ", "l", "i", "s", "t">>
inPadded == <<" ", "r", "e", "e", "l", " ">>

BotInputs == {<<>>, sBlank, inHelloThere, inXyz, inSchoolList, inHI, inProfile,
              inList, inOutreach, inHighlight, inReel, inReelUp,
              inHelloProfile, inProfileSchool, inOutreachReel, inThis,
              inListOutreach, inPadded}

BotNames == {defaultBotName, txtB}

----------------------------------------------------------------------------
(* Specifications *)

Page == Mount \/ RunEffect \/ Tick

GpaOps == \E v \in GpaValues : handleProfileChange("gpa", v)

SchoolOps ==
  \/ \E n \in Names : addSchool(n, divisionDI, <<>>)
  \/ \E id \in Ids : removeSchool(id)
  \/ \E id \in Ids, m \in Messages : logOutreach(id, m)

BotOps ==
  \/ \E t \in BotInputs : sendToBot(t)
  \/ \E b \in BotNames : setBotName(b)

SettingsOps ==
  \/ \E v \in FieldValues : setReelPlan(v)
  \/ \E v \in FieldValues : setBrandName(v)
  \/ \E v \in {<<>>, txtB} : setBotName(v)

NextSchools == Page \/ SchoolOps

SpecSchools == Init /\ [][NextSchools]_vars

AchievementOps ==
  \/ \E t \in Texts : addAchievement(t)
  \/ \E id \in Ids : removeAchievement(id)

(* the profile editor: every scalar field and the achievements *)
NextProfile ==
  \/ Page
  \/ \E i \in 1..Len(ScalarKeys), v \in FieldValues : handleProfileChange(ScalarKeys[i], v)
  \/ AchievementOps

SpecProfile == Init /\ [][NextProfile]_vars

ImportOps ==
  \/ \E p \in Payloads : importProfile(<<p>>)
  \/ importProfile(<<>>)
  \/ readerOnload

(* import and export of the profile, next to edits of two of its fields *)
NextImport ==
  \/ Page
  \/ \E k \in {"name", "gpa"}, v \in FieldValues : handleProfileChange(k, v)
  \/ \E t \in Texts : addAchievement(t)
  \/ ImportOps

SpecImport == Init /\ [][NextImport]_vars

NextBot == Page \/ BotOps

SpecBot == Init /\ [][NextBot]_vars

(* the school list next to every operation that changes the profile *)
NextSnapshot ==
  \/ Page
  \/ handleProfileChange("gpa", gpa35)
  \/ profile.achievements = <<>> /\ addAchievement(txtA)
  \/ \E id \in Ids : profile.achievements /= <<>> /\ removeAchievement(id)
  \/ importProfile(<<payloadFull>>)
  \/ readerOnload
  \/ addSchool(txtA, divisionDI, <<>>)
  \/ \E id \in Ids : removeSchool(id)
  \/ \E id \in Ids : outreach = <<>> /\ logOutreach(id, txtB)

SpecSnapshot == Init /\ [][NextSnapshot]_vars

(* the four operations that create an entity with an id *)
NextIds ==
  \/ Page
  \/ addAchievement(txtA)
  \/ addSchool(txtA, divisionDI, <<>>)
  \/ \E id \in Ids : logOutreach(id, txtB)
  \/ \E t \in {inXyz, sBlank} : sendToBot(t)

SpecIds == Init /\ [][NextIds]_vars

(* the page over a store that may be unavailable, with reloads *)
NextPersist ==
  \/ Page
  \/ StorageToggle
  \/ Reload
  \/ SettingsOps
  \/ handleProfileChange("name", txtA)
  \/ addSchool(txtA, divisionDI, <<>>)
  \/ \E id \in Ids : removeSchool(id)
  \/ \E id \in Ids : logOutreach(id, txtB)

SpecPersist == InitPersist /\ [][NextPersist]_vars

(* schools added under every GPA text; the clock plays no part in the fit *)
(* score and stands still here                                             *)
NextFit ==
  \/ Mount
  \/ RunEffect
  \/ \E v \in GpaInputs : handleProfileChange("gpa", v)
  \/ addSchool(txtA, divisionDI, <<>>)
  \/ \E id \in Ids : removeSchool(id)

SpecFit == Init /\ [][NextFit]_vars

(* the chat with each keyword of the reply table typed on its own *)
NextKeywords ==
  \/ Page
  \/ \E k \in {kwHello, kwHi, kwProfile, kwSchool, kwList, kwOutreach,
                kwHighlight, kwReel} : sendToBot(k)
  \/ \E b \in BotNames : setBotName(b)

SpecKeywords == Init /\ [][NextKeywords]_vars

(* mutations of the seven entities over a working store, with reloads;    *)
(* the clock moves only between the two reads of sendToBot                 *)
NextReload ==
  \/ Mount
  \/ RunEffect
  \/ Reload
  \/ SettingsOps
  \/ handleProfileChange("name", txtA)
  \/ addSchool(txtA, divisionDI, <<>>)
  \/ \E id \in Ids : logOutreach(id, txtB)
  \/ sendToBot(inXyz)

SpecReload == Init /\ [][NextReload]_vars

(* every operation of the page *)
Next == NextProfile \/ ImportOps \/ GpaOps \/ SchoolOps \/ BotOps \/ SettingsOps
          \/ StorageToggle \/ Reload

Spec == Init /\ [][Next]_vars

----------------------------------------------------------------------------
(* Properties *)

SchoolIds == {schools[i].id : i \in 1..Len(schools)}

(* the outreach list last written under rz_outreach *)
PersistedOutreach == LoadJSON(store, "rz_outreach", <<>>)

(* the schools list last written under rz_schools *)
PersistedSchools == LoadJSON(store, "rz_schools", <<>>)

(* the i-th smallest element of a set of integers *)
Nth(S, i) == CHOOSE x \in S : Cardinality({y \in S : y <= x}) = i

(* C1: removeSchool(S) removes every outreach entry whose schoolId is S    *)
(* and keeps the other entries, unchanged and in their order, so that the  *)
(* list shrinks by exactly the number of entries that referenced S.        *)
C1_RemoveSchoolCascades ==
  [][\A S \in Ids :
       removeSchool(S) =>
         LET kept == {i \in 1..Len(outreach) : outreach[i].schoolId /= S}
             gone == {i \in 1..Len(outreach) : outreach[i].schoolId = S}
         IN /\ Len(outreach') = Len(outreach) - Cardinality(gone)
            /\ \A k \in 1..Len(outreach') : outreach'[k] = outreach[Nth(kept, k)]
            /\ \A k \in 1..Len(outreach') : outreach'[k].schoolId /= S]_vars

(* a removeSchool has just dropped an entry and kept another one: the      *)
(* outreach key still holds the list from before the removal               *)
C1_Witness ==
  /\ lastOp.name = "removeSchool"
  /\ effects = <<"rz_schools", "rz_outreach">>
  /\ Len(outreach) = 1
  /\ Len(PersistedOutreach) = 2
  /\ \E i \in 1..2 : PersistedOutreach[i].schoolId = lastOp.id

(* C2: in every state a render can show, every outreach entry references   *)
(* a school that is in the schools list.                                   *)
C2_NoOrphanedOutreach ==
  phase = "running" =>
    \A i \in 1..Len(outreach) : outreach[i].schoolId \in SchoolIds

(* outreach was logged for two schools and one of them was then removed *)
C2_Witness ==
  /\ lastOp.name = "removeSchool"
  /\ Len(schools) = 1
  /\ Len(outreach) = 1
  /\ Len(PersistedSchools) = 2
  /\ effects /= <<>>

IdsOf(seq) == [i \in 1..Len(seq) |-> seq[i].id]

Distinct(seq) == \A i, j \in 1..Len(seq) : i /= j => seq[i] /= seq[j]

(* C3: within each collection (achievements, schools, outreach, chat      *)
(* messages) all ids are pairwise distinct, whatever the clock reads.      *)
C3_IdsDistinct ==
  phase = "running" =>
    /\ Distinct(IdsOf(profile.achievements))
    /\ Distinct(IdsOf(schools))
    /\ Distinct(IdsOf(outreach))
    /\ Distinct(IdsOf(botMessages))

Blank(s) == \A i \in 1..Len(s) : s[i] \in WhiteSpace

(* C4: a sendToBot call with non-blank input appends exactly two entries   *)
(* to the chat log, keeping the previous log as a prefix: the user entry   *)
(* with the input as typed, then the bot entry with the reply and a        *)
(* strictly greater id; a call with blank input leaves the log unchanged.  *)
C4_SendAppendsUserThenBot ==
  [][\A t \in BotInputs :
       sendToBot(t) =>
         LET n == Len(botMessages)
         IN IF Blank(t) THEN botMessages' = botMessages
            ELSE /\ Len(botMessages') = n + 2
                 /\ SubSeq(botMessages', 1, n) = botMessages
                 /\ botMessages'[n + 1].from = fromUser
                 /\ botMessages'[n + 1].text = t
                 /\ botMessages'[n + 2].from = fromBot
                 /\ botMessages'[n + 2].text = respond(botName, t)
                 /\ botMessages'[n + 2].id > botMessages'[n + 1].id]_vars

(* a second exchange was appended after a first one, the input holding     *)
(* upper-case letters                                                       *)
C4_Witness ==
  /\ lastOp.name = "sendToBot"
  /\ effects = <<"rz_bot">>
  /\ Len(botMessages) = 4
  /\ botMessages[3].text = lastOp.text
  /\ botMessages[3].text /= toLowerCase(botMessages[3].text)

(* C5: the completion percentage is an integer in 0..100, the rounded      *)
(* ninth-share of the non-empty scalar fields plus one for a non-empty     *)
(* achievements list.                                                       *)
C5_CompletionSaturates ==
  phase = "running" =>
    /\ profileCompletion(profile) \in 0..100
    /\ profileCompletion(profile) =
         MathRound((completedFields(profile)
                    + (IF Len(profile.achievements) > 0 THEN 1 ELSE 0)) * 100, 9)

(* C6: a new school gets the fit score of the GPA at the time of the call, *)
(* and a school that stays in the list keeps the record, fit score         *)
(* included, that it had before the step.                                   *)
C6_FitScoreSnapshot ==
  [][\A i \in 1..Len(schools') :
       \/ \E j \in 1..Len(schools) : schools[j] = schools'[i]
       \/ /\ i = Len(schools')
          /\ Len(schools') = Len(schools) + 1
          /\ lastOp'.name = "addSchool"
          /\ schools'[i].fitScore = computeFitScore(ToStringField(profile, "gpa"))]_vars

(* the GPA was edited after a school was added, and the stored score is    *)
(* no longer the score of the current GPA                                   *)
C6_Witness ==
  /\ lastOp.name = "handleProfileChange"
  /\ schools /= <<>>
  /\ schools[1].fitScore /= computeFitScore(ToStringField(profile, "gpa"))

MalformedPayloads ==
  {payloadTruncated, payloadTrailingComma, payloadGarbage, <<>>}

(* C7: when the file read completes, a payload that does not parse leaves  *)
(* the profile as it was and raises the alert; a payload that parses       *)
(* replaces the whole profile by the parsed object.                         *)
C7_ImportAllOrNothing ==
  [][readerOnload =>
       /\ reader[1] \in MalformedPayloads =>
            profile' = profile /\ alerts' = alerts + 1 /\ effects' = <<>>
       /\ reader[1] \notin MalformedPayloads => alerts' = alerts
       /\ reader[1] = payloadFull => profile' = fullProfile
       /\ reader[1] = payloadPartial =>
            profile' = [name |-> txtB, achievements |-> <<>>]
       /\ reader[1] = payloadEmptyObject => DOMAIN profile' = {}
       /\ reader[1] = payloadNull => profile' = JSNull]_vars

(* a malformed import was refused while the profile held edited fields *)
C7_Witness ==
  /\ lastOp = Op("onload", 0, <<>>)
  /\ alerts = 1
  /\ TruthyField(profile, "name")
  /\ Len(profile.achievements) > 0

(* C8: with the store unavailable no operation is fatal: the page mounts   *)
(* with the defaults and stays mounted after a failing write.               *)
C8_NeverFatal == phase /= "crashed"

PersistedSchoolIds ==
  {PersistedSchools[i].id : i \in 1..Len(PersistedSchools)}

(* C9: neither the rendered state nor the pair of values stored under the  *)
(* schools key and the outreach key ever holds an outreach entry whose     *)
(* school is gone.                                                          *)
C9_RemoveSchoolAtomic ==
  phase = "running" =>
    /\ \A i \in 1..Len(outreach) : outreach[i].schoolId \in SchoolIds
    /\ \A i \in 1..Len(PersistedOutreach) :
         PersistedOutreach[i].schoolId \in PersistedSchoolIds

(* the reply table: the keywords of each rule and the reply of each rule *)
RuleKeywords ==
  << {kwHello, kwHi}, {kwProfile}, {kwSchool, kwList}, {kwOutreach},
     {kwHighlight, kwReel} >>

RuleReply(bot, r) ==
  CASE r = 1 -> replyGreeting(bot)
    [] r = 2 -> replyProfile
    [] r = 3 -> replySchool
    [] r = 4 -> replyOutreach
    [] r = 5 -> replyReel

MatchingRules(lower) ==
  {r \in 1..5 : \E k \in RuleKeywords[r] : includes(lower, k)}

FirstMatchReply(bot, text) ==
  LET ms == MatchingRules(toLowerCase(text))
  IN IF ms = {} THEN replyFallback
     ELSE RuleReply(bot, CHOOSE r \in ms : \A q \in ms : r <= q)

(* C10: the reply appended by sendToBot is that of the lowest-numbered     *)
(* rule with a keyword contained in the lower-cased input, the fallback    *)
(* when there is none, and the same reply answers the input in upper case. *)
C10_FirstMatchWins ==
  [][\A t \in BotInputs :
       (sendToBot(t) /\ ~Blank(t)) =>
         /\ botMessages'[Len(botMessages')].text = FirstMatchReply(botName, t)
         /\ respond(botName, toUpperCase(t)) = botMessages'[Len(botMessages')].text
         /\ respond(botName, toLowerCase(t)) = botMessages'[Len(botMessages')].text]_vars

(* an input matching two rules was answered by the earlier one, after an   *)
(* unmatched input got the fallback                                         *)
C10_Witness ==
  /\ Len(botMessages) = 4
  /\ botMessages[2].text = replyFallback
  /\ Cardinality(MatchingRules(toLowerCase(botMessages[3].text))) >= 2
  /\ botMessages[4].text = replyProfile

(* the GPA texts with the number each one reads as: num/den, or no number  *)
(* (nan), or an infinity                                                    *)
GpaCases ==
  { [s |-> <<>>,           kind |-> "nan",    num |-> 0,   den |-> 1],
    [s |-> gpaBad,         kind |-> "nan",    num |-> 0,   den |-> 1],
    [s |-> gpaDot,         kind |-> "nan",    num |-> 0,   den |-> 1],
    [s |-> gpa0,           kind |-> "num",    num |-> 0,   den |-> 1],
    [s |-> gpa35,          kind |-> "num",    num |-> 35,  den |-> 10],
    [s |-> gpa40,          kind |-> "num",    num |-> 4,   den |-> 1],
    [s |-> gpa50,          kind |-> "num",    num |-> 5,   den |-> 1],
    [s |-> gpaNeg,         kind |-> "num",    num |-> -1,  den |-> 1],
    [s |-> gpaNegSmall,    kind |-> "num",    num |-> -2,  den |-> 100],
    [s |-> gpaSmall,       kind |-> "num",    num |-> 2,   den |-> 100],
    [s |-> gpa2x,          kind |-> "num",    num |-> 2,   den |-> 1],
    [s |-> gpaPadded,      kind |-> "num",    num |-> 3,   den |-> 1],
    [s |-> gpaExp,         kind |-> "num",    num |-> 10,  den |-> 1],
    [s |-> gpaInfinity,    kind |-> "posinf", num |-> 0,   den |-> 1],
    [s |-> gpaNegInfinity, kind |-> "neginf", num |-> 0,   den |-> 1] }

(* round(gpa / 4 * 100) clamped to 0..100, for the GPA num/den: the        *)
(* integer k of 0..100 nearest to 25 * num / den (halves upwards), or the  *)
(* end of the range when that value lies outside                            *)
ClampedRound(num, den) ==
  IF 2 * 25 * num < 0 - den THEN 0
  ELSE IF 2 * 25 * num >= 201 * den THEN 100
  ELSE CHOOSE k \in 0..100 :
         (2 * k - 1) * den <= 2 * 25 * num /\ 2 * 25 * num < (2 * k + 1) * den

ClaimedFitScore(c) ==
  CASE c.kind = "nan"    -> 50
    [] c.kind = "posinf" -> 100
    [] c.kind = "neginf" -> 0
    [] c.kind = "num"    -> ClampedRound(c.num, c.den)

(* C11: the fit score of a new school is 50 when the GPA text is no        *)
(* number and otherwise round(gpa / 4 * 100) clamped to 0..100 (100 for    *)
(* 4.0 and above, 0 for 0 and below), and every school in the list has a   *)
(* fit score in 0..100.                                                     *)
C11_FitScoreClamped ==
  [][/\ \A i \in 1..Len(schools') : schools'[i].fitScore \in 0..100
     /\ \A c \in GpaCases :
          (Len(schools') = Len(schools) + 1 /\ profile.gpa = c.s) =>
            schools'[Len(schools')].fitScore = ClaimedFitScore(c)
     /\ ClaimedFitScore(CHOOSE c \in GpaCases : c.s = gpa40) = 100
     /\ ClaimedFitScore(CHOOSE c \in GpaCases : c.s = gpa0) = 0]_vars

(* a school added under GPA -1 got 0 and one added under GPA 5.0 got 100 *)
C11_Witness ==
  /\ lastOp.name = "addSchool"
  /\ Len(schools) = 2
  /\ profile.gpa = gpa50
  /\ schools[1].fitScore = 0
  /\ schools[2].fitScore = 100
  /\ PersistedSchools /= <<>>
  /\ PersistedSchools[1].fitScore = 0

(* C12: logOutreach changes nothing when the school id is not in the       *)
(* schools list or the message is blank; otherwise it appends one entry    *)
(* with that school id and message at the end of the outreach list and     *)
(* leaves the earlier entries and the schools list as they were.           *)
C12_LogOutreachGuarded ==
  [][\A id \in Ids, m \in Messages :
       logOutreach(id, m) =>
         /\ schools' = schools
         /\ IF id \notin SchoolIds \/ Blank(m)
            THEN outreach' = outreach
            ELSE /\ Len(outreach') = Len(outreach) + 1
                 /\ SubSeq(outreach', 1, Len(outreach)) = outreach
                 /\ outreach'[Len(outreach')].schoolId = id
                 /\ outreach'[Len(outreach')].message = m]_vars

(* a second entry was appended for the second of two schools, after a     *)
(* first entry for the first one                                           *)
C12_Witness ==
  /\ lastOp.name = "logOutreach"
  /\ effects = <<"rz_outreach">>
  /\ Len(schools) = 2
  /\ Len(outreach) = 2
  /\ Len(PersistedOutreach) = 1
  /\ outreach[1].schoolId = schools[1].id
  /\ outreach[2].schoolId = lastOp.id
  /\ outreach[2].schoolId /= outreach[1].schoolId

(* a call for an id that no school has left the list as it was *)
C12_WitnessRefused ==
  /\ lastOp.name = "logOutreach"
  /\ lastOp.id \notin SchoolIds
  /\ ~Blank(lastOp.text)
  /\ effects = <<>>
  /\ Len(outreach) = 1

(* C13: removeAchievement(id) leaves the profile as it was when no         *)
(* achievement has that id, and otherwise removes exactly one achievement  *)
(* with that id, keeping the others in their order and every other         *)
(* profile field.                                                           *)
C13_RemoveExactlyOne ==
  [][\A id \in Ids :
       removeAchievement(id) =>
         LET old  == profile.achievements
             hits == {i \in 1..Len(old) : old[i].id = id}
         IN IF hits = {} THEN profile' = profile
            ELSE /\ Len(profile'.achievements) = Len(old) - 1
                 /\ \E h \in hits :
                      profile'.achievements =
                        SubSeq(old, 1, h - 1) \o SubSeq(old, h + 1, Len(old))
                 /\ \A i \in 1..Len(ScalarKeys) :
                      profile'[ScalarKeys[i]] = profile[ScalarKeys[i]]]_vars

(* C13, apart from achievements that share an id: removeAchievement(id)   *)
(* removes every achievement with that id and nothing else                 *)
C13_RemoveAllWithId ==
  [][\A id \in Ids :
       removeAchievement(id) =>
         LET old  == profile.achievements
             kept == {i \in 1..Len(old) : old[i].id /= id}
         IN /\ Len(profile'.achievements) = Cardinality(kept)
            /\ \A k \in 1..Cardinality(kept) :
                 profile'.achievements[k] = old[Nth(kept, k)]
            /\ \A i \in 1..Len(ScalarKeys) :
                 profile'[ScalarKeys[i]] = profile[ScalarKeys[i]]]_vars

(* C14: every keyword of the reply table selects its own rule: an input    *)
(* that is just the keyword (in particular just "highlight" or just        *)
(* "reel") is answered by the reply of that keyword's rule.                *)
C14_EveryKeywordSelectsItsRule ==
  [][\A r \in 1..5 :
       \A k \in RuleKeywords[r] :
         sendToBot(k) =>
           botMessages'[Len(botMessages')].text = RuleReply(botName, r)]_vars

(* what the useState initialisers would read from the store now *)
Reloaded ==
  << LoadJSON(store, "rz_profile", emptyProfile),
     LoadJSON(store, "rz_schools", <<>>),
     LoadJSON(store, "rz_outreach", <<>>),
     LoadJSON(store, "rz_bot", <<>>),
     LoadText(store, "rz_reelPlan", <<>>),
     LoadText(store, "rz_brandName", defaultBrandName),
     LoadText(store, "rz_botName", defaultBotName) >>

(* C15: once the persistence effects of the mutations have all run over a  *)
(* working store, re-initialising from the stored keys gives, for each of  *)
(* the seven entities, the value held in memory, an empty brandName,       *)
(* botName or reelPlan included.                                            *)
C15_ReloadRoundTrip ==
  (phase = "running" /\ effects = <<>>) => Reloaded = mem

(* C15 for the entities other than brandName and botName *)
C15_ReloadRoundTripOthers ==
  (phase = "running" /\ effects = <<>>) =>
    \A i \in 1..5 : Reloaded[i] = mem[i]

====
